---- MODULE Spec2Model ----
(***************************************************************************)
(* Truck/trailer lookup and synchronisation subsystem of Warehouse_Ramps:  *)
(* the LookupProvider (lookup-context), the SupabaseSyncProvider            *)
(* (supabase-sync-context) and the HTML parser they import.                 *)
(*                                                                          *)
(* A JavaScript string is a sequence of one-character strings, so that      *)
(* trim, toLowerCase, toUpperCase, startsWith and substring are computed    *)
(* and not assumed.  null is the one-element sequence Null, which is no     *)
(* string of the alphabet.                                                  *)
(***************************************************************************)
EXTENDS Integers, Sequences, FiniteSets, TLC

VARIABLES
    lookupData,          \* useState lookupData: the record list
    localStorage,        \* localStorage item "truckTrailerLookup": NoItem or JSON text
    remoteTable,         \* rows of the remote table lookup_data, in insertion order
    supabaseConfigured,  \* hasSupabaseCredentials && supabase !== null
    isSupabaseAvailable, \* useState of SupabaseSyncProvider
    connectionStatus,    \* "connecting" | "connected" | "disconnected"
    probe,               \* the testSupabaseConnection call of initializeSupabase
    isInitialized,       \* isInitialized refs: the mount effects have run
    syncInProgress,      \* syncInProgress ref (guard of fetchLookupDataSafely)
    task,                \* the calls in flight: upload, add, clear, refresh
    addLog,              \* history: the accepted addTruckTrailerPair calls in a row on one truck
    addOutcome,          \* history: accepted or rejected, of the last call when it was an add
    uploadLog,           \* history: the last uploadHtml resolved without a remote store
    now,                 \* the clock read by new Date(), in ms
    lastUpdateTime,      \* lastUpdateTime ref: the timestamp of the last notification let through
    retryCount,          \* retryCount ref: the handler runs that have thrown in a row
    notifyTask,          \* the handleLookupDataUpdate run in flight
    lastNotice,          \* history: the last notification, and what the handler did with it
    runLog,              \* history: how the last handleLookupDataUpdate run has ended
    channel,             \* the postgres_changes events of the channel: sent, and delivered to the listener
    pendingUpdate,       \* a setTimeout(triggerLookupUpdate) has not fired yet
    unannounced,         \* history: setLookupData has been called since the last triggerLookupUpdate
    pList,               \* function under test: the record list drawn
    pIncoming,           \* function under test: the parsed import
    pMerged,             \* function under test: the last mergeHtmlData application
    pAnswer,             \* function under test: the last lookup application
    rampStatus,          \* useState rampStatus of WarehouseVisualizationContent, per ramp
    rampTimers           \* the setTimeout callbacks of the ramp handlers not yet run, oldest first

vars == <<lookupData, localStorage, remoteTable, supabaseConfigured, isSupabaseAvailable,
          connectionStatus, probe, isInitialized, syncInProgress, task,
          addLog, addOutcome, uploadLog, now, lastUpdateTime, retryCount, notifyTask,
          lastNotice, runLog, channel, pendingUpdate, unannounced,
          pList, pIncoming, pMerged, pAnswer, rampStatus, rampTimers>>

serviceVars == <<lookupData, localStorage, remoteTable, supabaseConfigured, isSupabaseAvailable,
                 connectionStatus, probe, isInitialized, syncInProgress, task,
                 addLog, addOutcome, uploadLog, now, lastUpdateTime, retryCount, notifyTask,
                 lastNotice, runLog, channel, pendingUpdate, unannounced>>

\* The state of the remote-change handler, and the clock
notifyVars == <<now, lastUpdateTime, retryCount, notifyTask, lastNotice, runLog, channel>>

\* The state of triggerLookupUpdate
updateVars == <<pendingUpdate, unannounced>>

pureVars == <<pList, pIncoming, pMerged, pAnswer>>

\* The state of the ramps
rampVars == <<rampStatus, rampTimers>>

----------------------------------------------------------------------------
(* Strings *)

Null == <<"null">>

Sp == " "

Empty == <<>>

LowerOf(c) == IF c = "O" THEN "o" ELSE c

UpperOf(c) == IF c = "o" THEN "O" ELSE c

toLowerCase(s) == [i \in 1..Len(s) |-> LowerOf(s[i])]

toUpperCase(s) == [i \in 1..Len(s) |-> UpperOf(s[i])]

RECURSIVE trimStart(_)
trimStart(s) == IF s # <<>> /\ Head(s) = Sp THEN trimStart(Tail(s)) ELSE s

RECURSIVE trimEnd(_)
trimEnd(s) == IF s # <<>> /\ s[Len(s)] = Sp THEN trimEnd(SubSeq(s, 1, Len(s) - 1)) ELSE s

trim(s) == trimEnd(trimStart(s))

\* s.toLowerCase().startsWith("o-")
startsWithOPrefix(s) == Len(s) >= 2 /\ LowerOf(s[1]) = "o" /\ s[2] = "-"

\* s.substring(2)
substring2(s) == SubSeq(s, 3, Len(s))

\* `o-${s}`
withOPrefix(s) == <<"o", "-">> \o s

\* JavaScript truthiness of a string
Truthy(s) == s # <<>>

\* The comparison form of the specification: trimmed and case-folded
Fold(s) == toLowerCase(trim(s))

----------------------------------------------------------------------------
(* The identifiers of the model *)

T080 == <<"0", "8", "0">>
T090 == <<"0", "9", "0">>
Lo154 == <<"o", "-", "1", "5", "4">>
Up154 == <<"O", "-", "1", "5", "4">>
N154 == <<"1", "5", "4">>
N155 == <<"1", "5", "5">>

DigitChars == {"0", "1", "2", "3", "4", "5", "6", "7", "8", "9"}

DigitValue(c) ==
    CASE c = "0" -> 0 [] c = "1" -> 1 [] c = "2" -> 2 [] c = "3" -> 3 [] c = "4" -> 4
      [] c = "5" -> 5 [] c = "6" -> 6 [] c = "7" -> 7 [] c = "8" -> 8 [] c = "9" -> 9

DigitChar(n) == CHOOSE c \in DigitChars : DigitValue(c) = n

\* The arguments addTruckTrailerPair is called with, and the inputs of the lookups
RawTrucks == {Empty, <<Sp>> \o T080 \o <<Sp>>}

RawTrailers == {<<Sp>>, Lo154, <<Sp>> \o N154}

Queries == {Empty, T080, T090, <<Sp>> \o T090, Lo154, Up154, N154, <<Sp>> \o N154, N155}

\* The truck rows an uploaded file can hold
FileSpans == {<<"8", "0">>, T090}

FileCells == {Empty, Lo154}

\* The trucks and trailers of the records the service can hold: a truck comes
\* trimmed from the parser or from the manual-entry form, a trailer is the
\* parser's (blank, or upper-cased) or a trimmed manual entry
HeldTrucks == {T080, T090}

HeldTrailers == {Empty, Up154, Lo154, N154, N155}

\* Longest record list drawn for the functions under test
MaxLen == 2

\* Most truck rows of an uploaded file
MaxFileRows == 2

SeqsUpTo(S, n) == UNION {[1..k -> S] : k \in 0..n}

\* The files uploaded to the running service: no row, a row that is no truck
\* row, or one truck row
UploadSpans == {<<"7">>, <<"8", "0">>}

UploadCells == {Lo154}

MaxUploadRows == 1

UploadFiles == SeqsUpTo([span : UploadSpans, cell : UploadCells], MaxUploadRows)

Files == SeqsUpTo([span : FileSpans, cell : FileCells], MaxFileRows)

----------------------------------------------------------------------------
(* parseHtmlFile.  A file is the sequence of its truck rows: span is the   *)
(* text of the x14/x15 span of the row, cell the text of the eighth cell of *)
(* the row after it, where the trailer is looked for.                       *)

IsDigits(s) == \A i \in 1..Len(s) : s[i] \in DigitChars

\* /^\d{2,3}$/
IsTruckText(s) == Len(s) \in {2, 3} /\ IsDigits(s)

\* /^o-\d{3}$/i
IsTrailerText(s) == Len(s) = 5 /\ startsWithOPrefix(s) /\ IsDigits(substring2(s))

RECURSIVE parseInt(_)
parseInt(s) == IF s = <<>> THEN 0 ELSE 10 * parseInt(SubSeq(s, 1, Len(s) - 1)) + DigitValue(s[Len(s)])

RECURSIVE numToString(_)
numToString(n) == IF n < 10 THEN <<DigitChar(n)>> ELSE numToString(n \div 10) \o <<DigitChar(n % 10)>>

RECURSIVE padStart3(_)
padStart3(s) == IF Len(s) >= 3 THEN s ELSE padStart3(<<"0">> \o s)

Mapping(truck, trailer, row) == [truck |-> truck, trailer |-> trailer, row |-> row]

RECURSIVE parseRows(_, _, _)
parseRows(file, pairs, seenTrucks) ==
    IF file = <<>> THEN pairs
    ELSE LET e == Head(file)
             truckText == trim(e.span)
             truckNum == parseInt(truckText)
             truckID == padStart3(numToString(truckNum))
             tdText == trim(e.cell)
             trailer == IF IsTrailerText(tdText) THEN toUpperCase(tdText) ELSE Empty
         IN  IF IsTruckText(truckText) /\ truckNum >= 80 /\ truckNum <= 399
                    /\ truckID \notin seenTrucks
             THEN parseRows(Tail(file),
                            Append(pairs, Mapping(truckID, trailer, Len(pairs) + 2)),
                            seenTrucks \cup {truckID})
             ELSE parseRows(Tail(file), pairs, seenTrucks)

parseHtmlFile(file) == parseRows(file, <<>>, {})

----------------------------------------------------------------------------
(* The lookup maps and the two lookups *)

EmptyMap == [k \in {} |-> Empty]

MapHas(map, k) == k \in DOMAIN map

MapSet(map, k, v) == [x \in (DOMAIN map) \cup {k} |-> IF x = k THEN v ELSE map[x]]

\* map.get(k), undefined being Null
MapGet(map, k) == IF k \in DOMAIN map THEN map[k] ELSE Null

\* item.trailer || "" and item.truck || ""
OrEmpty(s) == IF Truthy(s) THEN s ELSE Empty

RECURSIVE truckMapFrom(_, _)
truckMapFrom(list, map) ==
    IF list = <<>> THEN map
    ELSE LET item == Head(list)
         IN  truckMapFrom(Tail(list),
                          IF Truthy(item.truck)
                          THEN MapSet(map, item.truck, OrEmpty(item.trailer))
                          ELSE map)

\* A faulty truckMap: the first record of a truck wins
truckMapFirstWins(list) ==
    LET Reverse(q) == [i \in 1..Len(q) |-> q[Len(q) + 1 - i]]
    IN  truckMapFrom(Reverse(list), EmptyMap)

truckMap(list) == truckMapFrom(list, EmptyMap)

\* One iteration of the loop of trailerMap
\* A faulty step of trailerMap: a prefixed trailer is indexed by its alias only
trailerMapStepAliasOnly(map, item) ==
    IF Truthy(item.trailer)
    THEN IF startsWithOPrefix(item.trailer)
         THEN MapSet(map, substring2(item.trailer), item.truck)
         ELSE MapSet(map, item.trailer, item.truck)
    ELSE map

trailerMapStep(map, item) ==
    IF Truthy(item.trailer)
    THEN LET m1 == MapSet(map, item.trailer, OrEmpty(item.truck))
             normalizedTrailer == substring2(item.trailer)
         IN  IF startsWithOPrefix(item.trailer) /\ ~MapHas(m1, normalizedTrailer)
             THEN MapSet(m1, normalizedTrailer, OrEmpty(item.truck))
             ELSE m1
    ELSE map

RECURSIVE trailerMapFrom(_, _)
trailerMapFrom(list, map) ==
    IF list = <<>> THEN map
    ELSE trailerMapFrom(Tail(list), trailerMapStep(map, Head(list)))

trailerMap(list) == trailerMapFrom(list, EmptyMap)

\* x || null, for x a string or undefined
OrNull(x) == IF x = Null \/ ~Truthy(x) THEN Null ELSE x

lookupTrailerByTruck(list, truck) ==
    IF ~Truthy(truck) \/ trim(truck) = Empty THEN Null
    ELSE OrNull(MapGet(truckMap(list), trim(truck)))

lookupTruckByTrailer(list, trailer) ==
    IF ~Truthy(trailer) \/ trim(trailer) = Empty THEN Null
    ELSE LET input == trim(trailer)
             direct == MapGet(trailerMap(list), input)
             result == IF direct = Null /\ ~startsWithOPrefix(input)
                       THEN MapGet(trailerMap(list), withOPrefix(input))
                       ELSE direct
         IN  OrNull(result)

----------------------------------------------------------------------------
(* mergeHtmlData *)

\* newTrucksMap.has(truck): the trucks of the truthy-truck items of newData
newTrucks(newData) == {newData[i].truck : i \in {j \in 1..Len(newData) : Truthy(newData[j].truck)}}

\* .filter((item) => item.truck && item.trailer)
IsValidEntry(item) == Truthy(item.truck) /\ Truthy(item.trailer)

mergeHtmlData(existingData, newData) ==
    LET shouldPreserve(item) == item.truck \notin newTrucks(newData)
        preservedData == SelectSeq(existingData, shouldPreserve)
        mergedData == preservedData \o newData
        valid == SelectSeq(mergedData, IsValidEntry)
    IN  [index \in 1..Len(valid) |->
            Mapping(trim(valid[index].truck), trim(valid[index].trailer), index)]

----------------------------------------------------------------------------
(* The ramps of WarehouseVisualizationContent: handleRampClick,             *)
(* handleInputChange and the timers they set.  Every update of rampStatus   *)
(* is a functional one that spreads the other ramps, so the ramps are       *)
(* followed one by one; inputValue, which is written and never read by      *)
(* the handlers, is left out.                                               *)

\* The ramps followed: the first and the last of 20..60
Ramps == {20, 60}

\* The ramp numbers the handlers are called with
RampNumbers == Ramps \cup {61}

DefectText == <<"d", "e", "f", "e", "c", "t">>

\* The texts typed into the truck input and the trailer input of a ramp
RampValues == {Empty, T080, DefectText}

createDefaultStatus ==
    [active |-> FALSE, red |-> FALSE, yellow |-> FALSE, truckValue |-> Empty,
     trailerValue |-> Empty, hasTruck |-> FALSE, isExiting |-> FALSE]

\* setTimeout(..., 50), the delay of the entering truck
enterDelayMs == 50

TRUCK_EXIT_ANIMATION_DURATION == 1400

\* Most timers of the ramp handlers that are set and have not run
MaxTimers == 2

\* { ...status, ...assign }
spread(status, assign) ==
    [f \in DOMAIN status |-> IF f \in DOMAIN assign THEN assign[f] ELSE status[f]]

\* The updater returns { ...prev, [rampNumber]: status }
rampSet(rampNumber, status) ==
    rampStatus' = [rampStatus EXCEPT ![rampNumber] = status]

\* setTimeout of a callback that spreads assign over the status the ramp then has
timerSet(rampNumber, delay, assign) ==
    /\ Len(rampTimers) < MaxTimers
    /\ rampTimers' = Append(rampTimers,
                            [rampNumber |-> rampNumber, delay |-> delay, assign |-> assign])

InitRamp ==
    /\ rampStatus = [rampNumber \in Ramps |-> createDefaultStatus]
    /\ rampTimers = <<>>

handleRampClick(rampNumber) ==
    /\ IF rampNumber < 20 \/ rampNumber > 60
       THEN UNCHANGED rampVars
       ELSE LET currentStatus == rampStatus[rampNumber]
            IN  IF currentStatus.active
                THEN /\ rampSet(rampNumber, spread(currentStatus, [isExiting |-> TRUE]))
                     /\ timerSet(rampNumber, TRUCK_EXIT_ANIMATION_DURATION,
                                 [active |-> FALSE, red |-> FALSE, yellow |-> FALSE,
                                  hasTruck |-> FALSE, isExiting |-> FALSE,
                                  truckValue |-> Empty, trailerValue |-> Empty])
                ELSE /\ rampSet(rampNumber,
                                spread(currentStatus,
                                       [active |-> TRUE, red |-> TRUE, yellow |-> FALSE,
                                        hasTruck |-> FALSE, isExiting |-> FALSE]))
                     /\ timerSet(rampNumber, enterDelayMs, [hasTruck |-> TRUE])
    /\ UNCHANGED serviceVars
    /\ UNCHANGED pureVars

handleInputChange(rampNumber, value, inputType) ==
    /\ IF rampNumber < 20 \/ rampNumber > 60
       THEN UNCHANGED rampVars
       ELSE LET currentStatus == rampStatus[rampNumber]
                updatedStatus ==
                    IF inputType = "truck"
                    THEN [currentStatus EXCEPT !.truckValue = value]
                    ELSE [currentStatus EXCEPT !.trailerValue = value]
                lowerTruckValue == toLowerCase(trim(updatedStatus.truckValue))
                lowerTrailerValue == toLowerCase(trim(updatedStatus.trailerValue))
                isYellow == lowerTruckValue = DefectText \/ lowerTrailerValue = DefectText
                hasAnyInput ==
                    \/ lowerTruckValue # Empty /\ lowerTruckValue # DefectText
                    \/ lowerTrailerValue # Empty /\ lowerTrailerValue # DefectText
                isActive == hasAnyInput \/ isYellow
            IN  IF ~isActive
                THEN IF currentStatus.hasTruck
                     THEN /\ rampSet(rampNumber, spread(updatedStatus, [isExiting |-> TRUE]))
                          /\ timerSet(rampNumber, TRUCK_EXIT_ANIMATION_DURATION,
                                      [active |-> FALSE, red |-> FALSE, yellow |-> FALSE,
                                       hasTruck |-> FALSE, isExiting |-> FALSE])
                     ELSE /\ rampSet(rampNumber,
                                     spread(updatedStatus,
                                            [active |-> FALSE, red |-> FALSE, yellow |-> FALSE,
                                             hasTruck |-> FALSE, isExiting |-> FALSE]))
                          /\ UNCHANGED rampTimers
                ELSE IF currentStatus.active /\ ~isActive
                THEN /\ rampSet(rampNumber, spread(updatedStatus, [isExiting |-> TRUE]))
                     /\ timerSet(rampNumber, TRUCK_EXIT_ANIMATION_DURATION,
                                 [active |-> isActive, red |-> hasAnyInput, yellow |-> isYellow,
                                  hasTruck |-> FALSE, isExiting |-> FALSE])
                ELSE IF isYellow /\ currentStatus.hasTruck /\ ~currentStatus.yellow
                THEN /\ rampSet(rampNumber,
                                spread(updatedStatus, [yellow |-> isYellow, isExiting |-> TRUE]))
                     /\ timerSet(rampNumber, TRUCK_EXIT_ANIMATION_DURATION,
                                 [active |-> isActive, red |-> FALSE, yellow |-> isYellow,
                                  hasTruck |-> FALSE, isExiting |-> FALSE])
                ELSE IF ~currentStatus.active /\ isActive /\ hasAnyInput
                THEN /\ rampSet(rampNumber,
                                spread(updatedStatus,
                                       [active |-> isActive, red |-> hasAnyInput,
                                        yellow |-> isYellow, hasTruck |-> FALSE,
                                        isExiting |-> FALSE]))
                     /\ timerSet(rampNumber, enterDelayMs, [hasTruck |-> hasAnyInput])
                ELSE /\ rampSet(rampNumber,
                                spread(updatedStatus,
                                       [active |-> isActive, red |-> hasAnyInput,
                                        yellow |-> isYellow, hasTruck |-> hasAnyInput,
                                        isExiting |-> FALSE]))
                     /\ UNCHANGED rampTimers
    /\ UNCHANGED serviceVars
    /\ UNCHANGED pureVars

\* The callback of the timer at index i runs. A timer set earlier with a delay
\* that is not longer runs before it
RampTimerFires(i) ==
    /\ i \in 1..Len(rampTimers)
    /\ \A j \in 1..(i - 1) : rampTimers[j].delay > rampTimers[i].delay
    /\ LET timer == rampTimers[i]
       IN  rampSet(timer.rampNumber, spread(rampStatus[timer.rampNumber], timer.assign))
    /\ rampTimers' = [k \in 1..(Len(rampTimers) - 1) |->
                         IF k < i THEN rampTimers[k] ELSE rampTimers[k + 1]]
    /\ UNCHANGED serviceVars
    /\ UNCHANGED pureVars

----------------------------------------------------------------------------
(* Initial state of the two providers, before their effects have run *)

NoItem == <<"absent">>

NotRun == [fn |-> "none"]

Idle == [pc |-> "idle"]

TaskKinds == {"upload", "add", "clear", "refresh"}

\* The ticks of the clock, and the most the clock is advanced: the
\* notifications of a session are at StartTime + k * TickMs
TickMs == 500

MaxTicks == 5

\* The clock at the start of a session; any time of day is beyond the 2000 ms
\* that handleLookupDataUpdate compares with a lastUpdateTime of 0
StartTime == 2000

InitService ==
    /\ InitRamp
    /\ lookupData = <<>>
    /\ localStorage = NoItem
    /\ remoteTable = <<>>
    /\ supabaseConfigured \in BOOLEAN
    /\ isSupabaseAvailable = FALSE
    /\ connectionStatus = "connecting"
    /\ probe = [pc |-> "unstarted"]
    /\ isInitialized = FALSE
    /\ syncInProgress = FALSE
    /\ task = [k \in TaskKinds |-> Idle]
    /\ addLog = <<>>
    /\ addOutcome = "none"
    /\ uploadLog = NotRun
    /\ now = StartTime
    /\ lastUpdateTime = 0
    /\ retryCount = 0
    /\ notifyTask = Idle
    /\ lastNotice = NotRun
    /\ channel = [sent |-> 0, delivered |-> 0]
    /\ runLog = "none"
    /\ pendingUpdate = FALSE
    /\ unannounced = FALSE

InitPure ==
    /\ pList = <<>>
    /\ pIncoming = <<>>
    /\ pMerged = NotRun
    /\ pAnswer = NotRun

----------------------------------------------------------------------------
(* The functions under test, applied to drawn inputs *)

\* The record lists drawn: the held trucks and trailers, sequence numbers by position
HeldLists ==
    {[i \in 1..Len(p) |-> Mapping(p[i][1], p[i][2], i)] :
        p \in SeqsUpTo(HeldTrucks \X HeldTrailers, MaxLen)}

InitDrawn ==
    /\ InitService
    /\ supabaseConfigured = FALSE
    /\ pList \in HeldLists
    /\ pIncoming = <<>>
    /\ pMerged = NotRun
    /\ pAnswer = NotRun

ParseImport(file) ==
    /\ pIncoming' = parseHtmlFile(file)
    /\ UNCHANGED <<pList, pMerged, pAnswer>>
    /\ UNCHANGED serviceVars
    /\ UNCHANGED rampVars

ApplyMerge ==
    /\ pMerged' = [fn |-> "merge", existing |-> pList, incoming |-> pIncoming,
                   result |-> mergeHtmlData(pList, pIncoming)]
    /\ UNCHANGED <<pList, pIncoming, pAnswer>>
    /\ UNCHANGED serviceVars
    /\ UNCHANGED rampVars

AskTrailerByTruck(input) ==
    /\ pAnswer' = [fn |-> "byTruck", input |-> input,
                   result |-> lookupTrailerByTruck(pList, input)]
    /\ UNCHANGED <<pList, pIncoming, pMerged>>
    /\ UNCHANGED serviceVars
    /\ UNCHANGED rampVars

AskTruckByTrailer(input) ==
    /\ pAnswer' = [fn |-> "byTrailer", input |-> input,
                   result |-> lookupTruckByTrailer(pList, input)]
    /\ UNCHANGED <<pList, pIncoming, pMerged>>
    /\ UNCHANGED serviceVars
    /\ UNCHANGED rampVars

NextMerge ==
    \/ \E file \in Files : ParseImport(file)
    \/ ApplyMerge

SpecMerge == InitDrawn /\ [][NextMerge]_vars

NextLookup ==
    \/ \E input \in Queries : AskTrailerByTruck(input)
    \/ \E input \in Queries : AskTruckByTrailer(input)

SpecLookup == InitDrawn /\ [][NextLookup]_vars

----------------------------------------------------------------------------
(* Local Store and remote table *)

\* Most rows of the remote table, and so most records of a list
MaxRows == 2

\* Most calls of the service that are waiting for an answer at one time (the
\* forms disable their buttons while their own call is pending)
MaxInFlight == 1

maxConnectionRetries == 3
maxRetries == 3
batchSize == 50

\* JSON.stringify of a record list: the text lists each record's truck, trailer, row
JSONstringify(list) == [i \in 1..Len(list) |-> <<list[i].truck, list[i].trailer, list[i].row>>]

JSONparse(text) == [i \in 1..Len(text) |-> Mapping(text[i][1], text[i][2], text[i][3])]

\* A faulty loadFromLocalStorage: the item is not read
loadFromLocalStorageSkipped(current) == current

\* loadFromLocalStorage: the record list it sets, current when there is no item
loadFromLocalStorage(current) ==
    IF localStorage # NoItem THEN JSONparse(localStorage) ELSE current

\* syncLookupData: the rows it inserts
lookupRows(data) ==
    [index \in 1..Len(data) |->
        [truck |-> OrEmpty(data[index].truck),
         trailer |-> OrEmpty(data[index].trailer),
         row_number |-> IF data[index].row # 0 THEN data[index].row ELSE index]]

\* lookupRows.slice(i, i + batchSize)
batchAt(rows, i) ==
    SubSeq(rows, i + 1, IF i + batchSize < Len(rows) THEN i + batchSize ELSE Len(rows))

\* syncLookupData goes to the remote table
syncsRemotely(available, status) == available /\ status = "connected"

\* select("*").order("row_number"): the rows in an order of ascending row_number
selectOrders(table) ==
    LET n == Len(table)
        perms == {f \in [1..n -> 1..n] : \A i, j \in 1..n : i # j => f[i] # f[j]}
        ascending(f) == \A i \in 1..(n - 1) : table[f[i]].row_number <= table[f[i + 1]].row_number
    IN  {[i \in 1..n |-> table[f[i]]] : f \in {g \in perms : ascending(g)}}

\* fetchLookupDataSafely: the mappings made of the rows read
mappingsOf(data) ==
    IF Len(data) > 0
    THEN LET isValidRow(row) == Truthy(row.truck) /\ Truthy(row.trailer)
             valid == SelectSeq(data, isValidRow)
             mapped == [index \in 1..Len(valid) |->
                           Mapping(trim(valid[index].truck), trim(valid[index].trailer),
                                   IF valid[index].row_number # 0
                                   THEN valid[index].row_number ELSE index)]
         IN  SelectSeq(mapped, IsValidEntry)
    ELSE <<>>

----------------------------------------------------------------------------
(* Mount, connection probe and channel status *)

\* A faulty fetchLookupDataSafely: syncInProgress is not tested
fetchBeginsUnguarded(kind, retryAttempt) ==
    /\ task' = [task EXCEPT !["refresh"] =
                   [pc |-> "select", kind |-> kind, retryAttempt |-> retryAttempt]]
    /\ syncInProgress' = TRUE

\* fetchLookupDataSafely up to its request: the refresh task and the guard after it.
\* A call that returns null at once leaves the task idle.
fetchBegins(kind, retryAttempt) ==
    IF syncInProgress
    THEN /\ task' = [task EXCEPT !["refresh"] = Idle]
         /\ UNCHANGED syncInProgress
    ELSE /\ task' = [task EXCEPT !["refresh"] =
                        [pc |-> "select", kind |-> kind, retryAttempt |-> retryAttempt]]
         /\ syncInProgress' = TRUE

\* A faulty update: setLookupData(list) without the timer
updateForgotten ==
    /\ unannounced' = TRUE
    /\ UNCHANGED pendingUpdate

\* setLookupData(list) followed by setTimeout(triggerLookupUpdate, ...)
updateScheduled ==
    /\ pendingUpdate' = TRUE
    /\ unannounced' = TRUE

\* loadFromLocalStorage schedules triggerLookupUpdate when it finds the item
loadScheduled ==
    IF localStorage # NoItem THEN updateScheduled ELSE UNCHANGED updateVars

\* The mount effects of LookupProvider (loadInitialData) and of
\* SupabaseSyncProvider (initializeSupabase), run in the same commit
Mount ==
    /\ ~isInitialized
    /\ isInitialized' = TRUE
    /\ IF isSupabaseAvailable /\ connectionStatus = "connected"
       THEN /\ fetchBegins("startup", 0)
            /\ IF syncInProgress
               THEN lookupData' = loadFromLocalStorage(lookupData) /\ loadScheduled
               ELSE UNCHANGED <<lookupData, updateVars>>
       ELSE /\ lookupData' = loadFromLocalStorage(lookupData)
            /\ loadScheduled
            /\ UNCHANGED <<task, syncInProgress>>
    /\ IF ~supabaseConfigured
       THEN /\ isSupabaseAvailable' = FALSE
            /\ connectionStatus' = "disconnected"
            /\ probe' = [pc |-> "ended"]
       ELSE /\ connectionStatus' = "connecting"
            /\ probe' = [pc |-> "running", retryAttempt |-> 0, delay |-> 0]
            /\ UNCHANGED isSupabaseAvailable
    /\ uploadLog' = IF uploadLog.fn = "upload" /\ uploadLog.stage = "reloading"
                    THEN [uploadLog EXCEPT !.stage = "reloaded"]
                    ELSE uploadLog
    /\ UNCHANGED <<localStorage, remoteTable, supabaseConfigured, addLog, addOutcome>>
    /\ UNCHANGED notifyVars
    /\ UNCHANGED pureVars
    /\ UNCHANGED rampVars

\* testSupabaseConnection: the probe query answers without error
ProbeSucceeds ==
    /\ probe.pc = "running"
    /\ probe' = [pc |-> "ended"]
    /\ isSupabaseAvailable' = TRUE
    /\ connectionStatus' = "connected"
    /\ UNCHANGED <<lookupData, localStorage, remoteTable, supabaseConfigured, isInitialized,
                   syncInProgress, task, addLog, addOutcome, uploadLog, updateVars>>
    /\ UNCHANGED notifyVars
    /\ UNCHANGED pureVars
    /\ UNCHANGED rampVars

\* const delay = (retryAttempt + 1) * 2000
retryDelayMs == 2000

\* A faulty testSupabaseConnection: it returns false at the first failure
ProbeFailsAtOnce ==
    /\ probe.pc = "running"
    /\ probe' = [pc |-> "ended"]
    /\ isSupabaseAvailable' = FALSE
    /\ connectionStatus' = "disconnected"
    /\ UNCHANGED <<lookupData, localStorage, remoteTable, supabaseConfigured, isInitialized,
                   syncInProgress, task, addLog, addOutcome, uploadLog, updateVars>>
    /\ UNCHANGED notifyVars
    /\ UNCHANGED pureVars
    /\ UNCHANGED rampVars

\* testSupabaseConnection: the probe query errors or the 8000 ms race times out;
\* the next attempt is made after the delay
ProbeFails ==
    /\ probe.pc = "running"
    /\ IF probe.retryAttempt < maxConnectionRetries
       THEN /\ probe' = [probe EXCEPT !.retryAttempt = @ + 1,
                                      !.delay = (probe.retryAttempt + 1) * retryDelayMs]
            /\ UNCHANGED <<isSupabaseAvailable, connectionStatus>>
       ELSE /\ probe' = [pc |-> "ended"]
            /\ isSupabaseAvailable' = FALSE
            /\ connectionStatus' = "disconnected"
    /\ UNCHANGED <<lookupData, localStorage, remoteTable, supabaseConfigured, isInitialized,
                   syncInProgress, task, addLog, addOutcome, uploadLog, updateVars>>
    /\ UNCHANGED notifyVars
    /\ UNCHANGED pureVars
    /\ UNCHANGED rampVars

\* The subscribe callback of setupRealtimeSubscriptions: the channel exists once
\* the probe has succeeded
ChannelStatus(status) ==
    /\ isSupabaseAvailable
    /\ connectionStatus' = status
    /\ connectionStatus' # connectionStatus
    /\ UNCHANGED <<lookupData, localStorage, remoteTable, supabaseConfigured, isSupabaseAvailable,
                   probe, isInitialized, syncInProgress, task, addLog, addOutcome, uploadLog,
                   updateVars>>
    /\ UNCHANGED notifyVars
    /\ UNCHANGED pureVars
    /\ UNCHANGED rampVars

\* The page is reloaded: memory is lost, localStorage and the remote table stay
Reload ==
    /\ isInitialized
    /\ lookupData' = <<>>
    /\ isSupabaseAvailable' = FALSE
    /\ connectionStatus' = "connecting"
    /\ probe' = [pc |-> "unstarted"]
    /\ isInitialized' = FALSE
    /\ syncInProgress' = FALSE
    /\ task' = [k \in TaskKinds |-> Idle]
    /\ addLog' = <<>>
    /\ addOutcome' = "none"
    /\ uploadLog' = IF uploadLog.fn = "upload" /\ uploadLog.outcome = "ok"
                    THEN [uploadLog EXCEPT !.stage = "reloading"]
                    ELSE NotRun
    /\ lastUpdateTime' = 0
    /\ retryCount' = 0
    /\ notifyTask' = Idle
    /\ pendingUpdate' = FALSE
    /\ unannounced' = FALSE
    /\ UNCHANGED <<localStorage, remoteTable, supabaseConfigured, now, lastNotice, channel, runLog>>
    /\ UNCHANGED pureVars
    /\ UNCHANGED rampVars

----------------------------------------------------------------------------
(* uploadHtml, addTruckTrailerPair, clearData and the syncLookupData they await *)

\* The session has no remote store: the probe failed, or nothing is configured
LocalOnlySession == ~isSupabaseAvailable /\ connectionStatus = "disconnected"

\* The upload logged: one that has resolved in a session without a remote store
UploadCompleted(finalData) ==
    IF LocalOnlySession
    THEN [fn |-> "upload", outcome |-> "ok", list |-> finalData, stage |-> "done"]
    ELSE NotRun

\* A faulty continuation: an empty list is written to localStorage
afterSyncUnsaved(kind, data) ==
    /\ task' = [task EXCEPT ![kind] = Idle]
    /\ localStorage' = JSONstringify(<<>>)
    /\ uploadLog' = NotRun
    /\ unannounced' = FALSE
    /\ UNCHANGED <<addOutcome, pendingUpdate>>

\* What the caller of syncLookupData does once it has returned; the remote
\* failures are caught inside syncLookupData and are not seen here
afterSync(kind, data) ==
    /\ task' = [task EXCEPT ![kind] = Idle]
    /\ CASE kind = "upload" ->
              /\ localStorage' = JSONstringify(data)
              /\ uploadLog' = UploadCompleted(data)
              /\ pendingUpdate' = TRUE
              /\ UNCHANGED <<addOutcome, unannounced>>
         [] kind = "add" ->
              /\ UNCHANGED <<localStorage, addOutcome, uploadLog, updateVars>>
         [] kind = "clear" ->
              /\ localStorage' = NoItem
              /\ uploadLog' = NotRun
              /\ unannounced' = FALSE
              /\ UNCHANGED <<addOutcome, pendingUpdate>>

\* syncLookupData(data) up to its first request, and the caller's continuation
\* when no request is made. The caller has called setLookupData(data);
\* addTruckTrailerPair has scheduled triggerLookupUpdate before the call, uploadHtml
\* schedules it after, and clearData calls it after
syncBegins(kind, data, available, status) ==
    IF syncsRemotely(available, status)
    THEN /\ localStorage' = JSONstringify(data)
         /\ task' = [task EXCEPT ![kind] = [pc |-> "delete", data |-> data]]
         /\ addOutcome' = IF kind = "add" THEN "accepted" ELSE "none"
         /\ uploadLog' = NotRun
         /\ unannounced' = TRUE
         /\ pendingUpdate' = IF kind = "add" THEN TRUE ELSE pendingUpdate
    ELSE /\ task' = [task EXCEPT ![kind] = Idle]
         /\ localStorage' = CASE kind = "clear" -> NoItem
                              [] OTHER -> JSONstringify(data)
         /\ addOutcome' = IF kind = "add" THEN "accepted" ELSE "none"
         /\ uploadLog' = IF kind = "upload" THEN UploadCompleted(data) ELSE NotRun
         /\ unannounced' = (kind # "clear")
         /\ pendingUpdate' = IF kind = "clear" THEN pendingUpdate ELSE TRUE

\* The calls of the service that have not returned
InFlight == Cardinality({kind \in TaskKinds : task[kind].pc # "idle"})

\* uploadHtml(file, mergeMode) up to await parseHtmlFile(file). The callback holds
\* the lookupData and the syncLookupData of the render it was made in, so the
\* finalData it will set is fixed by the file and by the state at the call
UploadCall(file, mergeMode) ==
    /\ isInitialized
    /\ task["upload"].pc = "idle"
    /\ InFlight < MaxInFlight
    /\ LET newData == parseHtmlFile(file)
           finalData == IF mergeMode /\ Len(lookupData) > 0
                        THEN mergeHtmlData(lookupData, newData)
                        ELSE newData
       IN  /\ Len(finalData) <= MaxRows
           /\ task' = [task EXCEPT !["upload"] =
                          [pc |-> "parsing", finalData |-> finalData,
                           available |-> isSupabaseAvailable, status |-> connectionStatus]]
    /\ UNCHANGED <<lookupData, localStorage, remoteTable, supabaseConfigured, isSupabaseAvailable,
                   connectionStatus, probe, isInitialized, syncInProgress,
                   addLog, addOutcome, uploadLog, updateVars>>
    /\ UNCHANGED notifyVars
    /\ UNCHANGED pureVars
    /\ UNCHANGED rampVars

\* parseHtmlFile resolves
UploadParsed ==
    /\ task["upload"].pc = "parsing"
    /\ LET t == task["upload"]
       IN  /\ lookupData' = t.finalData
           /\ syncBegins("upload", t.finalData, t.available, t.status)
    /\ addLog' = <<>>
    /\ UNCHANGED <<remoteTable, supabaseConfigured, isSupabaseAvailable, connectionStatus,
                   probe, isInitialized, syncInProgress>>
    /\ UNCHANGED notifyVars
    /\ UNCHANGED pureVars
    /\ UNCHANGED rampVars

\* parseHtmlFile rejects (the file cannot be read)
UploadParseFails ==
    /\ task["upload"].pc = "parsing"
    /\ task' = [task EXCEPT !["upload"] = Idle]
    /\ uploadLog' = NotRun
    /\ UNCHANGED <<lookupData, localStorage, remoteTable, supabaseConfigured, isSupabaseAvailable,
                   connectionStatus, probe, isInitialized, syncInProgress, addLog, addOutcome,
                   updateVars>>
    /\ UNCHANGED notifyVars
    /\ UNCHANGED pureVars
    /\ UNCHANGED rampVars

\* parseHtmlFile resolves in a browser whose localStorage.setItem throws (the
\* quota is used up, or the storage is blocked). setLookupData(finalData) has been
\* called; syncLookupData throws at its first line, before any request, into the
\* inner catch; the setItem after it throws into the outer catch, which sets the
\* error "Failed to parse HTML file"; the timer of triggerLookupUpdate is not set
UploadStoreThrows ==
    /\ task["upload"].pc = "parsing"
    /\ lookupData' = task["upload"].finalData
    /\ task' = [task EXCEPT !["upload"] = Idle]
    /\ unannounced' = TRUE
    /\ addLog' = <<>>
    /\ addOutcome' = "none"
    /\ uploadLog' = NotRun
    /\ UNCHANGED <<localStorage, remoteTable, supabaseConfigured, isSupabaseAvailable,
                   connectionStatus, probe, isInitialized, syncInProgress, pendingUpdate>>
    /\ UNCHANGED notifyVars
    /\ UNCHANGED pureVars
    /\ UNCHANGED rampVars

CountTruck(list, truck) == Cardinality({i \in 1..Len(list) : list[i].truck = truck})

\* findIndex((item) => item[field] === value): the first such index, 0 when
\* there is none
findIndex(list, field, value) ==
    IF \E i \in 1..Len(list) : list[i][field] = value
    THEN CHOOSE i \in 1..Len(list) :
             list[i][field] = value /\ \A j \in 1..(i - 1) : list[j][field] # value
    ELSE 0

\* A faulty updatedData: the pair is appended whatever the list holds
updatedDataAppended(list, trimmedTruck, trimmedTrailer) ==
    Append(list, Mapping(trimmedTruck, trimmedTrailer, Len(list) + 1))

\* A faulty updatedData: the trailer is looked for before the truck
updatedDataTrailerFirst(list, trimmedTruck, trimmedTrailer) ==
    LET existingTruckIndex == findIndex(list, "truck", trimmedTruck)
        existingTrailerIndex == findIndex(list, "trailer", trimmedTrailer)
    IN  IF existingTrailerIndex # 0
        THEN [list EXCEPT ![existingTrailerIndex].truck = trimmedTruck]
        ELSE IF existingTruckIndex # 0
        THEN [list EXCEPT ![existingTruckIndex].trailer = trimmedTrailer]
        ELSE Append(list, Mapping(trimmedTruck, trimmedTrailer, Len(list) + 1))

\* The updatedData of addTruckTrailerPair, for a pair that is accepted
updatedDataOf(list, trimmedTruck, trimmedTrailer) ==
    LET existingTruckIndex == findIndex(list, "truck", trimmedTruck)
        existingTrailerIndex == findIndex(list, "trailer", trimmedTrailer)
    IN  IF existingTruckIndex # 0
        THEN [list EXCEPT ![existingTruckIndex].trailer = trimmedTrailer]
        ELSE IF existingTrailerIndex # 0
        THEN [list EXCEPT ![existingTrailerIndex].truck = trimmedTruck]
        ELSE Append(list, Mapping(trimmedTruck, trimmedTrailer, Len(list) + 1))

\* A faulty validation: blank fields are let through
rejectionOfUnvalidated(list, trimmedTruck, trimmedTrailer) ==
    IF \E i \in 1..Len(list) :
            list[i].truck = trimmedTruck /\ list[i].trailer = trimmedTrailer
    THEN "conflict"
    ELSE ""

\* A faulty validation: a pair the list holds already is let through
rejectionOfUnmatched(list, trimmedTruck, trimmedTrailer) ==
    IF ~Truthy(trimmedTruck) \/ ~Truthy(trimmedTrailer) THEN "validation" ELSE ""

\* The validation of addTruckTrailerPair: "" when the pair is accepted
rejectionOf(list, trimmedTruck, trimmedTrailer) ==
    IF ~Truthy(trimmedTruck) \/ ~Truthy(trimmedTrailer) THEN "validation"
    ELSE IF \E i \in 1..Len(list) :
                list[i].truck = trimmedTruck /\ list[i].trailer = trimmedTrailer
    THEN "conflict"
    ELSE ""

\* The accepted calls logged: two in a row for one truck with different trailers,
\* with the number of records of that truck before the first
addLogged(trimmedTruck, trimmedTrailer) ==
    IF Len(addLog) = 1 /\ addLog[1].truck = trimmedTruck /\ addLog[1].trailer # trimmedTrailer
    THEN Append(addLog, [truck |-> trimmedTruck, trailer |-> trimmedTrailer,
                         before |-> addLog[1].before])
    ELSE <<[truck |-> trimmedTruck, trailer |-> trimmedTrailer,
            before |-> CountTruck(lookupData, trimmedTruck)]>>

addTruckTrailerPair(truck, trailer) ==
    /\ isInitialized
    /\ task["add"].pc = "idle"
    /\ LET trimmedTruck == trim(truck)
           trimmedTrailer == trim(trailer)
           rejection == rejectionOf(lookupData, trimmedTruck, trimmedTrailer)
           updatedData == updatedDataOf(lookupData, trimmedTruck, trimmedTrailer)
       IN  IF rejection # ""
           THEN /\ addOutcome' = rejection
                /\ UNCHANGED <<lookupData, localStorage, task, addLog, uploadLog, updateVars>>
           ELSE /\ Len(updatedData) <= MaxRows
                /\ InFlight < MaxInFlight
                /\ lookupData' = updatedData
                /\ addLog' = addLogged(trimmedTruck, trimmedTrailer)
                /\ syncBegins("add", updatedData, isSupabaseAvailable, connectionStatus)
    /\ UNCHANGED <<remoteTable, supabaseConfigured, isSupabaseAvailable, connectionStatus,
                   probe, isInitialized, syncInProgress>>
    /\ UNCHANGED notifyVars
    /\ UNCHANGED pureVars
    /\ UNCHANGED rampVars

\* The trucks and trailers typed into the form, for the lists drawn
AddTrucks == RawTrucks \cup {T090, <<"7">>}

AddTrailers == RawTrailers \cup {N155, <<"9">>}

\* The validation and the updatedData of addTruckTrailerPair, for a drawn list
ApplyAdd(truck, trailer) ==
    /\ LET trimmedTruck == trim(truck)
           trimmedTrailer == trim(trailer)
           rejection == rejectionOf(pList, trimmedTruck, trimmedTrailer)
       IN  pAnswer' = [fn |-> "add", truck |-> trimmedTruck, trailer |-> trimmedTrailer,
                       rejection |-> rejection,
                       result |-> IF rejection # "" THEN pList
                                  ELSE updatedDataOf(pList, trimmedTruck, trimmedTrailer)]
    /\ UNCHANGED <<pList, pIncoming, pMerged>>
    /\ UNCHANGED serviceVars
    /\ UNCHANGED rampVars

NextAdd == \E truck \in AddTrucks, trailer \in AddTrailers : ApplyAdd(truck, trailer)

SpecAdd == InitDrawn /\ [][NextAdd]_vars

clearData ==
    /\ isInitialized
    /\ task["clear"].pc = "idle"
    /\ InFlight < MaxInFlight
    /\ lookupData' = <<>>
    /\ syncBegins("clear", <<>>, isSupabaseAvailable, connectionStatus)
    /\ addLog' = <<>>
    /\ UNCHANGED <<remoteTable, supabaseConfigured, isSupabaseAvailable, connectionStatus,
                   probe, isInitialized, syncInProgress>>
    /\ UNCHANGED notifyVars
    /\ UNCHANGED pureVars
    /\ UNCHANGED rampVars

SyncKinds == {"upload", "add", "clear"}

\* syncLookupData: the delete request is answered, with or without deleteError;
\* with no row to insert the call returns
DeleteResponds(kind, deleted) ==
    /\ task[kind].pc = "delete"
    /\ LET rows == lookupRows(task[kind].data)
       IN  /\ deleted \/ Len(remoteTable) + Len(rows) <= MaxRows
           /\ remoteTable' = IF deleted THEN <<>> ELSE remoteTable
           /\ IF Len(rows) > 0
              THEN /\ task' = [task EXCEPT ![kind] = [pc |-> "insert", data |-> @.data, i |-> 0]]
                   /\ UNCHANGED <<localStorage, addOutcome, uploadLog, updateVars>>
              ELSE afterSync(kind, task[kind].data)
    /\ UNCHANGED <<lookupData, supabaseConfigured, isSupabaseAvailable, connectionStatus,
                   probe, isInitialized, syncInProgress, addLog>>
    /\ UNCHANGED notifyVars
    /\ UNCHANGED pureVars
    /\ UNCHANGED rampVars

\* syncLookupData: the insert of a batch is answered, with or without error
InsertResponds(kind, inserted) ==
    /\ task[kind].pc = "insert"
    /\ LET rows == lookupRows(task[kind].data)
           i == task[kind].i
           batch == batchAt(rows, i)
       IN  IF inserted
           THEN /\ Len(remoteTable) + Len(batch) <= MaxRows
                /\ remoteTable' = remoteTable \o batch
                /\ IF i + batchSize < Len(rows)
                   THEN /\ task' = [task EXCEPT ![kind].i = i + batchSize]
                        /\ UNCHANGED <<localStorage, addOutcome, uploadLog, updateVars>>
                   ELSE afterSync(kind, task[kind].data)
           ELSE /\ UNCHANGED remoteTable
                /\ afterSync(kind, task[kind].data)
    /\ UNCHANGED <<lookupData, supabaseConfigured, isSupabaseAvailable, connectionStatus,
                   probe, isInitialized, syncInProgress, addLog>>
    /\ UNCHANGED notifyVars
    /\ UNCHANGED pureVars
    /\ UNCHANGED rampVars

----------------------------------------------------------------------------
(* forceRefresh, the startup load, and the fetchLookupDataSafely they await *)

\* The caller of fetchLookupDataSafely gets mappings: forceRefresh adopts any list,
\* loadInitialData a non-empty one and reads localStorage otherwise
fetchReturns(kind, mappings) ==
    IF kind = "force" \/ Len(mappings) > 0
    THEN /\ lookupData' = mappings
         /\ localStorage' = JSONstringify(mappings)
         /\ addLog' = <<>>
         /\ uploadLog' = NotRun
         /\ updateScheduled
    ELSE /\ lookupData' = loadFromLocalStorage(lookupData)
         /\ addLog' = <<>>
         /\ uploadLog' = NotRun
         /\ loadScheduled
         /\ UNCHANGED localStorage

\* A faulty caller: the list and the item are cleared when nothing comes
fetchGivesNothingCleared(kind) ==
    /\ lookupData' = <<>>
    /\ localStorage' = NoItem
    /\ addLog' = <<>>
    /\ uploadLog' = NotRun
    /\ UNCHANGED updateVars

\* The caller of fetchLookupDataSafely gets null or an error: forceRefresh sets
\* the error message, loadInitialData reads localStorage
fetchGivesNothing(kind) ==
    IF kind = "force"
    THEN UNCHANGED <<lookupData, localStorage, addLog, uploadLog, updateVars>>
    ELSE /\ lookupData' = loadFromLocalStorage(lookupData)
         /\ addLog' = <<>>
         /\ uploadLog' = NotRun
         /\ loadScheduled
         /\ UNCHANGED localStorage

forceRefresh ==
    /\ isInitialized
    /\ task["refresh"].pc = "idle"
    /\ isSupabaseAvailable /\ connectionStatus = "connected"
    /\ InFlight < MaxInFlight
    /\ fetchBegins("force", 0)
    /\ UNCHANGED <<lookupData, localStorage, remoteTable, supabaseConfigured, isSupabaseAvailable,
                   connectionStatus, probe, isInitialized, addLog, addOutcome, uploadLog,
                   updateVars>>
    /\ UNCHANGED notifyVars
    /\ UNCHANGED pureVars
    /\ UNCHANGED rampVars

\* forceRefresh without a connection: only the error message is set
forceRefreshUnavailable ==
    /\ isInitialized
    /\ task["refresh"].pc = "idle"
    /\ ~(isSupabaseAvailable /\ connectionStatus = "connected")
    /\ UNCHANGED vars

\* fetchLookupDataSafely: the select is answered with the rows of the table
SelectResponds(data) ==
    /\ task["refresh"].pc = "select"
    /\ data \in selectOrders(remoteTable)
    /\ syncInProgress' = FALSE
    /\ task' = [task EXCEPT !["refresh"] = Idle]
    /\ fetchReturns(task["refresh"].kind, mappingsOf(data))
    /\ UNCHANGED <<remoteTable, supabaseConfigured, isSupabaseAvailable, connectionStatus,
                   probe, isInitialized, addOutcome>>
    /\ UNCHANGED notifyVars
    /\ UNCHANGED pureVars
    /\ UNCHANGED rampVars

\* fetchLookupDataSafely: the select fails: the 15000 ms abort, a network error
\* (retried up to maxRetries times), or another error (thrown to the caller)
SelectFails(failure) ==
    /\ task["refresh"].pc = "select"
    /\ syncInProgress' = FALSE
    /\ IF failure = "network" /\ task["refresh"].retryAttempt < maxRetries
       THEN /\ task' = [task EXCEPT !["refresh"].pc = "retry"]
            /\ UNCHANGED <<lookupData, localStorage, addLog, uploadLog, updateVars>>
       ELSE /\ task' = [task EXCEPT !["refresh"] = Idle]
            /\ fetchGivesNothing(task["refresh"].kind)
    /\ UNCHANGED <<remoteTable, supabaseConfigured, isSupabaseAvailable, connectionStatus,
                   probe, isInitialized, addOutcome>>
    /\ UNCHANGED notifyVars
    /\ UNCHANGED pureVars
    /\ UNCHANGED rampVars

\* fetchLookupDataSafely(retryAttempt + 1), once the retry delay has passed
SelectRetried ==
    /\ task["refresh"].pc = "retry"
    /\ fetchBegins(task["refresh"].kind, task["refresh"].retryAttempt + 1)
    /\ IF syncInProgress
       THEN fetchGivesNothing(task["refresh"].kind)
       ELSE UNCHANGED <<lookupData, localStorage, addLog, uploadLog, updateVars>>
    /\ UNCHANGED <<remoteTable, supabaseConfigured, isSupabaseAvailable, connectionStatus,
                   probe, isInitialized, addOutcome>>
    /\ UNCHANGED notifyVars
    /\ UNCHANGED pureVars
    /\ UNCHANGED rampVars

----------------------------------------------------------------------------
(* handleLookupDataUpdate: the listener of the lookupDataUpdated events that
   the realtime channel dispatches, and the fetchLookupDataSafely it awaits *)

\* updateTime - lastUpdateTime.current < 2000
debounceMs == 2000

\* A faulty debounce: no notification is skipped
isRapidUpdateNever(updateTime) == FALSE

\* The notification is skipped as a rapid update
isRapidUpdate(updateTime) == updateTime - lastUpdateTime < debounceMs

\* What no step of the handler changes
notifyFrame ==
    /\ UNCHANGED <<remoteTable, supabaseConfigured, isSupabaseAvailable, connectionStatus,
                   probe, isInitialized, task, addOutcome, now>>
    /\ UNCHANGED pureVars
    /\ UNCHANGED rampVars

\* The channel dispatches lookupDataUpdated with timestamp: new Date(). The
\* listener is registered while isSupabaseAvailable. A notification that is not
\* skipped is noted in lastUpdateTime, and when the status is connected the
\* handler waits 1000 ms before it fetches (one such run at a time is followed)
handleLookupDataUpdate ==
    /\ isInitialized
    /\ isSupabaseAvailable
    /\ LET updateTime == now
           rapid == isRapidUpdate(updateTime)
           runs == ~rapid /\ connectionStatus = "connected"
       IN  /\ runs => notifyTask = Idle
           /\ lastUpdateTime' = IF rapid THEN lastUpdateTime ELSE updateTime
           /\ notifyTask' = IF runs THEN [pc |-> "settling"] ELSE notifyTask
           /\ lastNotice' = [fn |-> "notice", gap |-> updateTime - lastUpdateTime,
                             rapid |-> rapid, runs |-> runs]
    /\ channel' = IF channel.delivered < channel.sent
                  THEN [channel EXCEPT !.delivered = @ + 1]
                  ELSE channel
    /\ UNCHANGED <<lookupData, localStorage, syncInProgress, retryCount, runLog, addLog,
                   uploadLog, updateVars>>
    /\ notifyFrame

\* fetchLookupDataSafely as the handler calls it, up to its request. The status
\* it tests is the one of the render of the listener, which was connected
notifyFetchBegins(retryAttempt) ==
    IF syncInProgress
    THEN /\ notifyTask' = Idle
         /\ runLog' = "dropped"
         /\ UNCHANGED syncInProgress
    ELSE /\ notifyTask' = [pc |-> "select", retryAttempt |-> retryAttempt]
         /\ syncInProgress' = TRUE
         /\ UNCHANGED runLog

\* The 1000 ms have passed. A call that returns null is only logged
NotifySettled ==
    /\ notifyTask.pc = "settling"
    /\ notifyFetchBegins(0)
    /\ UNCHANGED <<lookupData, localStorage, lastUpdateTime, retryCount, lastNotice, channel, addLog,
                   uploadLog, updateVars>>
    /\ notifyFrame

\* The select of the handler is answered with the rows of the table. Any list,
\* an empty one too, is set, stored and announced
NotifySelectResponds(data) ==
    /\ notifyTask.pc = "select"
    /\ data \in selectOrders(remoteTable)
    /\ syncInProgress' = FALSE
    /\ notifyTask' = Idle
    /\ lookupData' = mappingsOf(data)
    /\ localStorage' = JSONstringify(mappingsOf(data))
    /\ retryCount' = 0
    /\ runLog' = "adopted"
    /\ updateScheduled
    /\ addLog' = <<>>
    /\ uploadLog' = NotRun
    /\ UNCHANGED <<lastUpdateTime, lastNotice, channel>>
    /\ notifyFrame

\* A faulty catch: syncInProgress.current is not reset
NotifySelectFailsGuardKept(failure) ==
    /\ notifyTask.pc = "select"
    /\ notifyTask' = Idle
    /\ runLog' = IF failure = "abort" THEN "null" ELSE "thrown"
    /\ UNCHANGED <<lookupData, localStorage, syncInProgress, lastUpdateTime, retryCount,
                   lastNotice, channel, addLog, uploadLog, updateVars>>
    /\ notifyFrame

\* The select of the handler fails. The abort gives null, a network error is
\* retried up to maxRetries times, and any other error, or a network error after
\* the retries, is thrown into the catch of the handler, which counts it (the
\* count is held at maxRetries, where the error message is set)
NotifySelectFails(failure) ==
    /\ notifyTask.pc = "select"
    /\ syncInProgress' = FALSE
    /\ IF failure = "abort"
       THEN /\ notifyTask' = Idle
            /\ runLog' = "null"
            /\ UNCHANGED retryCount
       ELSE IF failure = "network" /\ notifyTask.retryAttempt < maxRetries
       THEN /\ notifyTask' = [notifyTask EXCEPT !.pc = "retry"]
            /\ UNCHANGED <<retryCount, runLog>>
       ELSE /\ notifyTask' = Idle
            /\ runLog' = "thrown"
            /\ retryCount' = IF retryCount < maxRetries THEN retryCount + 1 ELSE retryCount
    /\ UNCHANGED <<lookupData, localStorage, lastUpdateTime, lastNotice, channel, addLog, uploadLog,
                   updateVars>>
    /\ notifyFrame

\* fetchLookupDataSafely(retryAttempt + 1) of the handler, after the retry delay
NotifySelectRetried ==
    /\ notifyTask.pc = "retry"
    /\ notifyFetchBegins(notifyTask.retryAttempt + 1)
    /\ UNCHANGED <<lookupData, localStorage, lastUpdateTime, retryCount, lastNotice, channel, addLog,
                   uploadLog, updateVars>>
    /\ notifyFrame

\* TickMs pass
Tick ==
    /\ now < StartTime + MaxTicks * TickMs
    /\ now' = now + TickMs
    /\ UNCHANGED <<lookupData, localStorage, remoteTable, supabaseConfigured, isSupabaseAvailable,
                   connectionStatus, probe, isInitialized, syncInProgress, task,
                   addLog, addOutcome, uploadLog, lastUpdateTime, retryCount, notifyTask,
                   lastNotice, channel, runLog, updateVars>>
    /\ UNCHANGED pureVars
    /\ UNCHANGED rampVars

\* The lists that other devices hold, and the tables they have pushed
OtherLists ==
    {<<>>, <<Mapping(T080, Up154, 1)>>, <<Mapping(T090, N155, 1)>>}

RemoteTables == {lookupRows(list) : list \in OtherLists}

\* The syncLookupData of another device has replaced the rows of the table
OtherDeviceSyncs(table) ==
    /\ remoteTable' = table
    /\ remoteTable' # remoteTable
    /\ UNCHANGED <<lookupData, localStorage, supabaseConfigured, isSupabaseAvailable,
                   connectionStatus, probe, isInitialized, syncInProgress, task,
                   addLog, addOutcome, uploadLog, updateVars>>
    /\ UNCHANGED notifyVars
    /\ UNCHANGED pureVars
    /\ UNCHANGED rampVars

\* A session with credentials, whose remote table other devices have filled and
\* whose localStorage an earlier session has left
InitRefresh ==
    /\ InitRamp
    /\ lookupData = <<>>
    /\ \/ localStorage = NoItem
       \/ \E list \in OtherLists : localStorage = JSONstringify(list)
    /\ remoteTable \in RemoteTables
    /\ supabaseConfigured = TRUE
    /\ isSupabaseAvailable = FALSE
    /\ connectionStatus = "connecting"
    /\ probe = [pc |-> "unstarted"]
    /\ isInitialized = FALSE
    /\ syncInProgress = FALSE
    /\ task = [k \in TaskKinds |-> Idle]
    /\ addLog = <<>>
    /\ addOutcome = "none"
    /\ uploadLog = NotRun
    /\ now = StartTime
    /\ lastUpdateTime = 0
    /\ retryCount = 0
    /\ notifyTask = Idle
    /\ lastNotice = NotRun
    /\ channel = [sent |-> 0, delivered |-> 0]
    /\ runLog = "none"
    /\ pendingUpdate = FALSE
    /\ unannounced = FALSE
    /\ InitPure

\* triggerLookupUpdate, run by a timer: updateTrigger is incremented, which
\* rebuilds truckMap and trailerMap, and lookupDataChanged is dispatched
triggerLookupUpdate ==
    /\ pendingUpdate
    /\ pendingUpdate' = FALSE
    /\ unannounced' = FALSE
    /\ UNCHANGED <<lookupData, localStorage, remoteTable, supabaseConfigured, isSupabaseAvailable,
                   connectionStatus, probe, isInitialized, syncInProgress, task,
                   addLog, addOutcome, uploadLog>>
    /\ UNCHANGED notifyVars
    /\ UNCHANGED pureVars
    /\ UNCHANGED rampVars

----------------------------------------------------------------------------
(* The service *)

Init == InitService /\ InitPure

Next ==
    \/ Mount
    \/ ProbeSucceeds
    \/ ProbeFails
    \/ \E status \in {"connected", "disconnected"} : ChannelStatus(status)
    \/ Reload
    \/ \E file \in UploadFiles, mergeMode \in BOOLEAN : UploadCall(file, mergeMode)
    \/ UploadParsed
    \/ UploadParseFails
    \/ \E truck \in RawTrucks, trailer \in RawTrailers : addTruckTrailerPair(truck, trailer)
    \/ clearData
    \/ \E kind \in SyncKinds, deleted \in BOOLEAN : DeleteResponds(kind, deleted)
    \/ \E kind \in SyncKinds, inserted \in BOOLEAN : InsertResponds(kind, inserted)
    \/ forceRefresh
    \/ forceRefreshUnavailable
    \/ \E data \in selectOrders(remoteTable) : SelectResponds(data)
    \/ \E failure \in {"abort", "network", "error"} : SelectFails(failure)
    \/ SelectRetried
    \/ triggerLookupUpdate

Spec == Init /\ [][Next]_vars

\* A session that is not reloaded, in which every timer fires, the file parser
\* settles and every request of syncLookupData is answered
NextLive ==
    \/ Mount
    \/ ProbeSucceeds
    \/ ProbeFails
    \/ \E status \in {"connected", "disconnected"} : ChannelStatus(status)
    \/ \E file \in UploadFiles, mergeMode \in BOOLEAN : UploadCall(file, mergeMode)
    \/ UploadParsed
    \/ UploadParseFails
    \/ \E truck \in RawTrucks, trailer \in RawTrailers : addTruckTrailerPair(truck, trailer)
    \/ clearData
    \/ \E kind \in SyncKinds, deleted \in BOOLEAN : DeleteResponds(kind, deleted)
    \/ \E kind \in SyncKinds, inserted \in BOOLEAN : InsertResponds(kind, inserted)
    \/ forceRefresh
    \/ forceRefreshUnavailable
    \/ \E data \in selectOrders(remoteTable) : SelectResponds(data)
    \/ \E failure \in {"abort", "network", "error"} : SelectFails(failure)
    \/ SelectRetried
    \/ triggerLookupUpdate

SpecLive ==
    /\ Init
    /\ [][NextLive]_vars
    /\ WF_vars(triggerLookupUpdate)
    /\ WF_vars(UploadParsed \/ UploadParseFails)
    /\ WF_vars(\E kind \in SyncKinds, deleted \in BOOLEAN : DeleteResponds(kind, deleted))
    /\ WF_vars(\E kind \in SyncKinds, inserted \in BOOLEAN : InsertResponds(kind, inserted))

\* A session that is not reloaded, whose remote store may leave any request
\* unanswered: what ends a request then is the timer the code has set for it, the
\* 8000 ms race of the probe and the 15000 ms abort of the select; the delete and
\* the insert of syncLookupData have none
SpecSilent ==
    /\ Init
    /\ [][NextLive]_vars
    /\ WF_vars(triggerLookupUpdate)
    /\ WF_vars(UploadParsed \/ UploadParseFails)
    /\ WF_vars(ProbeSucceeds \/ ProbeFails)
    /\ WF_vars(\/ \E data \in selectOrders(remoteTable) : SelectResponds(data)
               \/ \E failure \in {"abort", "network", "error"} : SelectFails(failure))
    /\ WF_vars(SelectRetried)

\* The ramps of a mounted WarehouseVisualizationContent
NextRamp ==
    \/ \E rampNumber \in RampNumbers : handleRampClick(rampNumber)
    \/ \E rampNumber \in RampNumbers, value \in RampValues, inputType \in {"truck", "trailer"} :
           handleInputChange(rampNumber, value, inputType)
    \/ \E i \in 1..MaxTimers : RampTimerFires(i)

(* The page without a remote configuration: the ramps do not use the service. *)
InitRamps ==
    /\ Init
    /\ ~supabaseConfigured

SpecRamp == InitRamps /\ [][NextRamp]_vars

\* A connected session in which the notifications of the channel arrive while
\* uploadHtml, addTruckTrailerPair and clearData run
NextEcho ==
    \/ Mount
    \/ ProbeSucceeds
    \/ \E file \in UploadFiles, mergeMode \in BOOLEAN : UploadCall(file, mergeMode)
    \/ UploadParsed
    \/ \E truck \in RawTrucks, trailer \in RawTrailers : addTruckTrailerPair(truck, trailer)
    \/ clearData
    \/ \E kind \in SyncKinds, deleted \in BOOLEAN : DeleteResponds(kind, deleted)
    \/ \E kind \in SyncKinds, inserted \in BOOLEAN : InsertResponds(kind, inserted)
    \/ handleLookupDataUpdate
    \/ NotifySettled
    \/ \E data \in selectOrders(remoteTable) : NotifySelectResponds(data)
    \/ triggerLookupUpdate

SpecEcho == Init /\ [][NextEcho]_vars

\* The uploads of a session in a browser whose localStorage.setItem throws
NextQuota ==
    \/ Mount
    \/ ProbeSucceeds
    \/ ProbeFails
    \/ \E status \in {"connected", "disconnected"} : ChannelStatus(status)
    \/ \E file \in UploadFiles, mergeMode \in BOOLEAN : UploadCall(file, mergeMode)
    \/ UploadParseFails
    \/ UploadStoreThrows

SpecQuota == Init /\ [][NextQuota]_vars

\* The session of a device that only reads: the startup, forceRefresh and the
\* notifications of the changes of other devices
NextRefresh ==
    \/ Mount
    \/ ProbeSucceeds
    \/ ProbeFails
    \/ \E status \in {"connected", "disconnected"} : ChannelStatus(status)
    \/ forceRefresh
    \/ forceRefreshUnavailable
    \/ \E data \in selectOrders(remoteTable) : SelectResponds(data)
    \/ \E failure \in {"abort", "network", "error"} : SelectFails(failure)
    \/ SelectRetried
    \/ handleLookupDataUpdate
    \/ NotifySettled
    \/ \E data \in selectOrders(remoteTable) : NotifySelectResponds(data)
    \/ \E failure \in {"abort", "network", "error"} : NotifySelectFails(failure)
    \/ NotifySelectRetried
    \/ Tick
    \/ \E table \in RemoteTables : OtherDeviceSyncs(table)
    \/ triggerLookupUpdate

SpecRefresh == InitRefresh /\ [][NextRefresh]_vars

\* Most changes other devices make to the table of a subscribed session
MaxChanges == 2

\* The syncLookupData of another device has replaced the rows of the table while
\* the channel is subscribed: a postgres_changes event is on its way
OtherDeviceNotifies(table) ==
    /\ isSupabaseAvailable
    /\ channel.sent < MaxChanges
    /\ remoteTable' = table
    /\ remoteTable' # remoteTable
    /\ channel' = [channel EXCEPT !.sent = @ + 1]
    /\ UNCHANGED <<lookupData, localStorage, supabaseConfigured, isSupabaseAvailable,
                   connectionStatus, probe, isInitialized, syncInProgress, task,
                   addLog, addOutcome, uploadLog, updateVars>>
    /\ UNCHANGED <<now, lastUpdateTime, retryCount, notifyTask, lastNotice, runLog>>
    /\ UNCHANGED pureVars
    /\ UNCHANGED rampVars

\* await new Promise((resolve) => setTimeout(resolve, 1000))
settleMs == 1000

\* The callback of the channel dispatches lookupDataUpdated for an event sent,
\* early enough for the clock to reach the end of the delay of the handler
NoticeDelivered ==
    /\ channel.delivered < channel.sent
    /\ now + settleMs <= StartTime + MaxTicks * TickMs
    /\ handleLookupDataUpdate

\* The delay of the handler ends settleMs after the notification it has let
\* through, whose timestamp is in lastUpdateTime
SettleElapsed ==
    /\ now >= lastUpdateTime + settleMs
    /\ NotifySettled

\* A session that stays connected, whose selects are all answered with the rows
\* of the table, and which is notified of every change other devices make
NextConverge ==
    \/ Mount
    \/ ProbeSucceeds
    \/ \E table \in RemoteTables : OtherDeviceNotifies(table)
    \/ NoticeDelivered
    \/ SettleElapsed
    \/ \E data \in selectOrders(remoteTable) : NotifySelectResponds(data)
    \/ forceRefresh
    \/ \E data \in selectOrders(remoteTable) : SelectResponds(data)
    \/ Tick
    \/ triggerLookupUpdate

\* Every event is delivered, every timer fires and every select is answered
SpecConverge ==
    /\ InitRefresh
    /\ [][NextConverge]_vars
    /\ WF_vars(Tick)
    /\ WF_vars(NoticeDelivered)
    /\ WF_vars(SettleElapsed)
    /\ WF_vars(\E data \in selectOrders(remoteTable) : NotifySelectResponds(data))
    /\ WF_vars(\E data \in selectOrders(remoteTable) : SelectResponds(data))
    /\ WF_vars(triggerLookupUpdate)

\* A select is ended by its answer or, after 15000 ms, by controller.abort()
SpecRefreshFair ==
    /\ SpecRefresh
    /\ WF_vars(\/ \E data \in selectOrders(remoteTable) : SelectResponds(data)
               \/ \E failure \in {"abort", "network", "error"} : SelectFails(failure))
    /\ WF_vars(\/ \E data \in selectOrders(remoteTable) : NotifySelectResponds(data)
               \/ \E failure \in {"abort", "network", "error"} : NotifySelectFails(failure))

----------------------------------------------------------------------------
(* The dataCount of lookupDataChanged *)

\* triggerLookupUpdate is made anew when lookupData.length changes, and reads
\* the lookupData of the render it was made in: the dataCount it dispatches
dataCountOf(renderList) == Len(renderList)

\* A callback of the render whose record list is pList has set the list after,
\* and the triggerLookupUpdate it holds, the one of that render, is run (by
\* clearData) or is the callback of the timer it has set (by the others)
changedEvent(cause, after) ==
    [fn |-> "changed", cause |-> cause, list |-> after, dataCount |-> dataCountOf(pList)]

\* addTruckTrailerPair of an accepted pair
AnnounceAdd(truck, trailer) ==
    /\ rejectionOf(pList, trim(truck), trim(trailer)) = ""
    /\ pAnswer' = changedEvent("add", updatedDataOf(pList, trim(truck), trim(trailer)))
    /\ UNCHANGED <<pList, pIncoming, pMerged>>
    /\ UNCHANGED serviceVars
    /\ UNCHANGED rampVars

\* uploadHtml of a file that is parsed
AnnounceUpload(file, mergeMode) ==
    /\ LET newData == parseHtmlFile(file)
       IN  pAnswer' = changedEvent("upload", IF mergeMode /\ Len(pList) > 0
                                             THEN mergeHtmlData(pList, newData)
                                             ELSE newData)
    /\ UNCHANGED <<pList, pIncoming, pMerged>>
    /\ UNCHANGED serviceVars
    /\ UNCHANGED rampVars

AnnounceClear ==
    /\ pAnswer' = changedEvent("clear", <<>>)
    /\ UNCHANGED <<pList, pIncoming, pMerged>>
    /\ UNCHANGED serviceVars
    /\ UNCHANGED rampVars

\* forceRefresh or the handler of the notifications, whose pull gives mappings
AnnounceAdopted(mappings) ==
    /\ pAnswer' = changedEvent("refresh", mappings)
    /\ UNCHANGED <<pList, pIncoming, pMerged>>
    /\ UNCHANGED serviceVars
    /\ UNCHANGED rampVars

NextCount ==
    \/ \E truck \in AddTrucks, trailer \in AddTrailers : AnnounceAdd(truck, trailer)
    \/ \E file \in UploadFiles, mergeMode \in BOOLEAN : AnnounceUpload(file, mergeMode)
    \/ AnnounceClear
    \/ \E mappings \in OtherLists : AnnounceAdopted(mappings)

SpecCount == InitDrawn /\ [][NextCount]_vars

----------------------------------------------------------------------------
(* The push followed by the pull *)

\* The record lists pushed: the held trucks and trailers, with the sequence
\* numbers the parser (2, 3, ...) and the manual-entry form (the length of the
\* list plus one) give
PushedLists ==
    {[i \in 1..Len(p) |-> Mapping(p[i][1], p[i][2], p[i][3])] :
        p \in SeqsUpTo(HeldTrucks \X HeldTrailers \X (1..(MaxLen + 1)), MaxLen)}

InitPushed ==
    /\ InitService
    /\ supabaseConfigured = TRUE
    /\ pList \in PushedLists
    /\ pIncoming = <<>>
    /\ pMerged = NotRun
    /\ pAnswer = NotRun

\* syncLookupData(pList) whose delete and inserts succeed on a table, then
\* fetchLookupDataSafely whose select is answered with the rows data
PushThenPull(data) ==
    /\ data \in selectOrders(lookupRows(pList))
    /\ pAnswer' = [fn |-> "roundTrip", pushed |-> pList, rows |-> data,
                   result |-> mappingsOf(data)]
    /\ UNCHANGED <<pList, pIncoming, pMerged>>
    /\ UNCHANGED serviceVars
    /\ UNCHANGED rampVars

NextRoundTrip ==
    \E data \in UNION {selectOrders(lookupRows(list)) : list \in PushedLists} :
        PushThenPull(data)

SpecRoundTrip == InitPushed /\ [][NextRoundTrip]_vars

----------------------------------------------------------------------------
(* Claims about mergeHtmlData (SpecMerge) *)

PairsOf(list) == [i \in 1..Len(list) |-> <<list[i].truck, list[i].trailer>>]

\* The truck appears in the list, trucks compared trimmed and case-folded
TruckAppears(list, truck) == \E i \in 1..Len(list) : Fold(list[i].truck) = Fold(truck)

HasPair(list, item) ==
    \E j \in 1..Len(list) : list[j].truck = item.truck /\ list[j].trailer = item.trailer

\* The (truck, trailer) pairs of the records of the list for one truck, in list order
PairsForTruck(list, truck) ==
    LET isFor(item) == Fold(item.truck) = Fold(truck)
    IN  PairsOf(SelectSeq(list, isFor))

\* C2: merge preservation. Every record of existing whose truck does not appear
\* in incoming has an identical (truck, trailer) record in the merge result, also
\* when only one of its truck and trailer is blank.
C2_MergePreservation ==
    pMerged.fn = "merge" =>
        \A i \in 1..Len(pMerged.existing) :
            ~TruckAppears(pMerged.incoming, pMerged.existing[i].truck)
                => HasPair(pMerged.result, pMerged.existing[i])

\* C3: merge replacement. For every truck that appears in incoming, the records
\* of the merge result for that truck are exactly those of incoming, and none of
\* existing.
C3_MergeReplacement ==
    pMerged.fn = "merge" =>
        \A i \in 1..Len(pMerged.incoming) :
            Truthy(pMerged.incoming[i].truck) =>
                PairsForTruck(pMerged.result, pMerged.incoming[i].truck)
                    = PairsForTruck(pMerged.incoming, pMerged.incoming[i].truck)

\* C4: merging an empty import changes nothing but sequence numbers: the result
\* has the same number of records and the same (truck, trailer) pairs in the same
\* order as existing.
C4_MergeEmptyImport ==
    (pMerged.fn = "merge" /\ pMerged.incoming = <<>>) =>
        PairsOf(pMerged.result) = PairsOf(pMerged.existing)

----------------------------------------------------------------------------
(* Claims about the updatedData of addTruckTrailerPair (SpecAdd) *)

\* The records of the list with this truck, and those with this trailer
WithTruck(list, truck) == {i \in 1..Len(list) : list[i].truck = truck}

WithTrailer(list, trailer) == {i \in 1..Len(list) : list[i].trailer = trailer}

\* The two lists have the same length and the same records but at position i
SameBut(before, after, i) ==
    /\ Len(after) = Len(before)
    /\ \A j \in 1..Len(before) : j # i => after[j] = before[j]

\* C20: an accepted pair is applied as exactly one of update-by-truck,
\* update-by-trailer and append, in that order. When a record has the truck, one
\* record A with the truck gets the given trailer and keeps its truck and row, and
\* every other record, one with the given trailer included, is unchanged; when no
\* record has the truck and one has the trailer, one record with the trailer gets
\* the given truck and the rest is unchanged; the list grows, by one record at
\* its end, only when neither matches.
C20_ExactlyOneStep ==
    (pAnswer.fn = "add" /\ pAnswer.rejection = "") =>
        LET before == pList
            after == pAnswer.result
        IN  IF WithTruck(before, pAnswer.truck) # {}
            THEN \E a \in WithTruck(before, pAnswer.truck) :
                    /\ SameBut(before, after, a)
                    /\ after[a] = [before[a] EXCEPT !.trailer = pAnswer.trailer]
            ELSE IF WithTrailer(before, pAnswer.trailer) # {}
            THEN \E b \in WithTrailer(before, pAnswer.trailer) :
                    /\ SameBut(before, after, b)
                    /\ after[b] = [before[b] EXCEPT !.truck = pAnswer.truck]
            ELSE /\ Len(after) = Len(before) + 1
                 /\ SubSeq(after, 1, Len(before)) = before
                 /\ after[Len(after)].truck = pAnswer.truck
                 /\ after[Len(after)].trailer = pAnswer.trailer

\* A pair has been accepted whose truck is the truck of one record and whose
\* trailer is the trailer of another: the first got the trailer, the second
\* still has it, and the list is as long as before.
C20_Witness ==
    /\ pAnswer.fn = "add"
    /\ pAnswer.rejection = ""
    /\ Len(pList) = 2
    /\ pList[1].truck # pList[2].truck
    /\ pList[1].truck = pAnswer.truck
    /\ pList[2].trailer = pAnswer.trailer
    /\ Len(pAnswer.result) = 2
    /\ pAnswer.result[1].trailer = pAnswer.trailer
    /\ pAnswer.result[2] = pList[2]

----------------------------------------------------------------------------
(* Claims about the lookups (SpecLookup) *)

HasTruck(list, truck) == \E i \in 1..Len(list) : list[i].truck = truck

\* The trailer of the last record of the list with this truck
LastTrailerOf(list, truck) ==
    LET last == CHOOSE i \in 1..Len(list) :
                    /\ list[i].truck = truck
                    /\ \A j \in (i + 1)..Len(list) : list[j].truck # truck
    IN  list[last].trailer

\* C6 as stated: the lookup of the truck of a record returns the trailer of the
\* last record with that truck.
C6_RoundTripAsStated ==
    (pAnswer.fn = "byTruck" /\ HasTruck(pList, pAnswer.input)) =>
        pAnswer.result = LastTrailerOf(pList, pAnswer.input)

\* C6 amended: the lookup of the truck of a record returns the trailer of the
\* last record with that truck when that trailer is not blank, and null when it
\* is blank.
C6_RoundTripLastWins ==
    (pAnswer.fn = "byTruck" /\ HasTruck(pList, pAnswer.input)) =>
        pAnswer.result = IF LastTrailerOf(pList, pAnswer.input) = Empty
                         THEN Null
                         ELSE LastTrailerOf(pList, pAnswer.input)

\* A truck held by two records with different trailers has been looked up, and
\* the answer is the trailer of the later record.
C6_Witness ==
    /\ pAnswer.fn = "byTruck"
    /\ Len(pList) = 2
    /\ pList[1].truck = pAnswer.input
    /\ pList[2].truck = pAnswer.input
    /\ pList[1].trailer # pList[2].trailer
    /\ pList[2].trailer # Empty
    /\ pAnswer.result = pList[2].trailer

\* Record i holds a trailer "o-" + s, s not blank, and no other record uses the
\* trailer s or "o-" + s (trailers compared trimmed and case-folded)
IsLonePrefixed(list, i) ==
    LET trailer == list[i].trailer
    IN  /\ Len(trailer) > 2
        /\ trailer = withOPrefix(substring2(trailer))
        /\ \A j \in 1..Len(list) :
               j # i => Fold(list[j].trailer) \notin {Fold(trailer), Fold(substring2(trailer))}

\* C7: prefix transparency. For a record {truck: t, trailer: "o-" + s} with no
\* other record using the trailer s or "o-" + s, the lookups of "o-" + s and of s
\* both return t.
C7_PrefixTransparency ==
    pAnswer.fn = "byTrailer" =>
        \A i \in 1..Len(pList) :
            (IsLonePrefixed(pList, i)
                /\ pAnswer.input \in {pList[i].trailer, substring2(pList[i].trailer)})
                    => pAnswer.result = pList[i].truck

\* The trailer "o-154" of a record has been looked up without its prefix, beside
\* another record, and the truck of the record came back.
C7_Witness ==
    /\ pAnswer.fn = "byTrailer"
    /\ Len(pList) = 2
    /\ IsLonePrefixed(pList, 2)
    /\ pList[1].trailer # Empty
    /\ pList[1].truck # pList[2].truck
    /\ pAnswer.input = substring2(pList[2].trailer)
    /\ pAnswer.result = pList[2].truck

\* C8: the lookups are case-insensitive. Two inputs that are equal after trimming
\* and case-folding get the same answer from lookupTrailerByTruck and from
\* lookupTruckByTrailer; a stored "O-154" is found by "o-154", "O-154" and "154".
C8_CaseInsensitiveLookup ==
    /\ pAnswer.fn = "byTruck" =>
           \A b \in Queries :
               Fold(b) = Fold(pAnswer.input) => lookupTrailerByTruck(pList, b) = pAnswer.result
    /\ pAnswer.fn = "byTrailer" =>
           \A b \in Queries :
               Fold(b) = Fold(pAnswer.input) => lookupTruckByTrailer(pList, b) = pAnswer.result

\* The keys under which trailerMap files a record: its trailer as written, and
\* for a prefixed trailer the text after the prefix
KeysOf(item) ==
    IF ~Truthy(item.trailer) THEN {}
    ELSE IF startsWithOPrefix(item.trailer)
         THEN {item.trailer, substring2(item.trailer)}
         ELSE {item.trailer}

\* The truck of the earliest record of the list filed under this key
FirstTruckUnder(list, key) ==
    LET first == CHOOSE i \in 1..Len(list) :
                     /\ key \in KeysOf(list[i])
                     /\ \A j \in 1..(i - 1) : key \notin KeysOf(list[j])
    IN  list[first].truck

\* C19: the trailer index is first-seen-wins for every key. When several records
\* are filed under the key that is looked up, as their trailer or as the alias of
\* their trailer, lookupTruckByTrailer returns the truck of the earliest of them.
C19_TrailerIndexFirstSeen ==
    (/\ pAnswer.fn = "byTrailer"
     /\ Truthy(pAnswer.input)
     /\ \E i \in 1..Len(pList) : trim(pAnswer.input) \in KeysOf(pList[i])) =>
        pAnswer.result = FirstTruckUnder(pList, trim(pAnswer.input))

----------------------------------------------------------------------------
(* Claims about the running service (Spec) *)

IsBlank(s) == trim(s) = Empty

\* Two accepted calls of addTruckTrailerPair for one truck, with different
\* trailers, have been made in a row and have returned
TwoAddsDone == Len(addLog) = 2 /\ task["add"].pc = "idle"

\* The first record of the list with this truck
FirstWithTruck(list, truck) ==
    list[CHOOSE i \in 1..Len(list) :
            list[i].truck = truck /\ \A j \in 1..(i - 1) : list[j].truck # truck]

Rejections == {"validation", "conflict"}

\* The call must be rejected: a blank field, or a record with exactly this truck
\* and this trailer
MustReject(list, truck, trailer) ==
    \/ IsBlank(truck)
    \/ IsBlank(trailer)
    \/ \E i \in 1..Len(list) : list[i].truck = trim(truck) /\ list[i].trailer = trim(trailer)

C10_LocalUploadSurvivesReload ==
    uploadLog.fn = "upload" =>
        /\ uploadLog.stage = "done" =>
               /\ lookupData = uploadLog.list
               /\ localStorage = JSONstringify(uploadLog.list)
        /\ uploadLog.stage = "reloaded" => lookupData = uploadLog.list

\* The probe has failed after its retries, an upload has added a record, and the
\* reloaded service holds it.
C10_Witness ==
    /\ uploadLog.fn = "upload"
    /\ uploadLog.stage = "reloaded"
    /\ supabaseConfigured
    /\ Len(uploadLog.list) > 0
    /\ lookupData = uploadLog.list

\* C16: the failures of the push are soft. When the insert of syncLookupData is
\* answered with an error during uploadHtml, addTruckTrailerPair or clearData, the
\* call returns, an accepted add is not rejected, the record list is not rolled
\* back, and localStorage holds the list of the call (no item after clearData); while the
\* record list is still the list the call has set, localStorage holds that same
\* list. When the delete is answered with an error the call goes on, and neither
\* the record list nor localStorage changes.
C16_PushFailuresAreSoft ==
    [][\A kind \in SyncKinds :
          /\ InsertResponds(kind, FALSE) =>
                 /\ task'[kind] = Idle
                 /\ UNCHANGED <<lookupData, remoteTable, addOutcome>>
                 /\ kind = "upload" => localStorage' = JSONstringify(task[kind].data)
                 /\ kind = "clear" => localStorage' = NoItem
                 /\ (kind # "clear" /\ lookupData = task[kind].data) =>
                        localStorage' = JSONstringify(lookupData')
          /\ DeleteResponds(kind, FALSE) =>
                 /\ task'[kind].pc \in {"insert", "idle"}
                 /\ UNCHANGED <<lookupData, remoteTable>>
                 /\ task'[kind].pc = "insert" => UNCHANGED localStorage]_vars

\* In a connected session an add has been accepted and has returned, the record
\* list and localStorage hold its pair, and the remote table, emptied by the
\* delete, does not: the insert was answered with an error.
C16_Witness ==
    /\ isSupabaseAvailable
    /\ connectionStatus = "connected"
    /\ addOutcome = "accepted"
    /\ task["add"] = Idle
    /\ Len(lookupData) > 0
    /\ localStorage = JSONstringify(lookupData)
    /\ remoteTable = <<>>

----------------------------------------------------------------------------
(* Claims about the refreshes (SpecRefresh) *)

\* C11: the debounce of the notifications. A notification whose timestamp is less
\* than 2000 ms after lastUpdateTime, the timestamp of the last notification let
\* through, is skipped: it starts no run of the handler and changes neither
\* lastUpdateTime nor the record list; lastUpdateTime only moves to the timestamp
\* of a notification at least 2000 ms after it, a run of the handler only starts
\* at such a notification, and the handler only sends its select from a run.
C11_Debounce ==
    /\ [](lastNotice.fn = "notice" =>
             /\ lastNotice.gap < 2000 => (lastNotice.rapid /\ ~lastNotice.runs)
             /\ lastNotice.runs => lastNotice.gap >= 2000)
    /\ [][/\ (handleLookupDataUpdate /\ now - lastUpdateTime < 2000) =>
                 UNCHANGED <<lastUpdateTime, notifyTask, syncInProgress, lookupData, localStorage>>
          /\ lastUpdateTime' # lastUpdateTime =>
                 (lastUpdateTime' = now /\ now - lastUpdateTime >= 2000)
          /\ (notifyTask.pc # "settling" /\ notifyTask'.pc = "settling") =>
                 (lastUpdateTime' = now /\ now - lastUpdateTime >= 2000)
          /\ (notifyTask.pc # "select" /\ notifyTask'.pc = "select") =>
                 notifyTask.pc \in {"settling", "retry"}]_vars

\* A notification has been let through and the select of its run is in flight;
\* the notification that came one tick after it has been skipped.
C11_Witness ==
    /\ lastNotice.fn = "notice"
    /\ lastNotice.gap = TickMs
    /\ lastNotice.rapid
    /\ ~lastNotice.runs
    /\ lastUpdateTime = now - TickMs
    /\ notifyTask.pc = "select"

\* The selects of fetchLookupDataSafely that have not been answered
SelectsInFlight ==
    (IF task["refresh"].pc = "select" THEN 1 ELSE 0)
        + (IF notifyTask.pc = "select" THEN 1 ELSE 0)

\* C12: fetchLookupDataSafely is not re-entered. At most one select is in flight,
\* and syncInProgress is set exactly while one is; a call made while one is in
\* flight, by forceRefresh, by the handler of the notifications or by a retry,
\* sends no select, changes no data and leaves nothing waiting to be run.
C12_OnePullInFlight ==
    /\ [](SelectsInFlight <= 1 /\ (syncInProgress <=> SelectsInFlight = 1))
    /\ [][syncInProgress =>
             /\ (forceRefresh \/ SelectRetried) =>
                    /\ task'["refresh"] = Idle
                    /\ UNCHANGED <<notifyTask, syncInProgress, lookupData, localStorage>>
             /\ (NotifySettled \/ NotifySelectRetried) =>
                    /\ notifyTask' = Idle
                    /\ UNCHANGED <<task, syncInProgress, lookupData, localStorage>>]_vars

\* The select of forceRefresh is in flight, and the run of the handler that
\* called fetchLookupDataSafely meanwhile has ended without a select.
C12_Witness ==
    /\ task["refresh"].pc = "select"
    /\ task["refresh"].kind = "force"
    /\ runLog = "dropped"
    /\ notifyTask = Idle
    /\ syncInProgress

\* The mount effect has run, the probe has ended, and no fetch of the mount
\* effect is in flight
StartupOver ==
    /\ isInitialized
    /\ probe.pc = "ended"
    /\ IF task["refresh"].pc = "idle" THEN TRUE ELSE task["refresh"].kind # "startup"

\* C13: the startup adopts the remote list. When the startup ends in a session
\* whose probe has succeeded and whose remote table gives a non-empty list, the
\* record list is the list of the remote table and localStorage holds it,
\* whatever localStorage held.
C13_StartupAdoption ==
    [][(/\ ~StartupOver
        /\ StartupOver'
        /\ isSupabaseAvailable'
        /\ connectionStatus' = "connected"
        /\ Len(mappingsOf(remoteTable')) > 0) =>
            /\ \E data \in selectOrders(remoteTable') : lookupData' = mappingsOf(data)
            /\ localStorage' = JSONstringify(lookupData')]_vars

\* C14: a failed refresh discards nothing. When the fetchLookupDataSafely of
\* forceRefresh or of the handler of the notifications gives null (the abort, the
\* call dropped while another is in flight) or throws, in the first call or in a
\* retry, the record list and localStorage are left as they are.
C14_FailedRefreshKeepsData ==
    [][/\ ((\E failure \in {"abort", "network", "error"} : SelectFails(failure))
               /\ task["refresh"].kind = "force") =>
             UNCHANGED <<lookupData, localStorage>>
       /\ (SelectRetried /\ syncInProgress /\ task["refresh"].kind = "force") =>
             UNCHANGED <<lookupData, localStorage>>
       /\ (forceRefresh /\ syncInProgress) =>
             UNCHANGED <<lookupData, localStorage>>
       /\ (\E failure \in {"abort", "network", "error"} : NotifySelectFails(failure)) =>
             UNCHANGED <<lookupData, localStorage>>
       /\ ((NotifySettled \/ NotifySelectRetried) /\ syncInProgress) =>
             UNCHANGED <<lookupData, localStorage>>]_vars

\* The last run of the handler has ended in its catch, and the record list and
\* localStorage still hold a list that the remote table does not hold.
C14_Witness ==
    /\ runLog = "thrown"
    /\ notifyTask = Idle
    /\ Len(lookupData) > 0
    /\ localStorage = JSONstringify(lookupData)
    /\ \A data \in selectOrders(remoteTable) : lookupData # mappingsOf(data)

\* C18: parse errors leave the data intact. Whenever uploadHtml ends in its outer
\* catch, which sets the error "Failed to parse HTML file", the record list,
\* localStorage and the remote table are as before the call.
C18_ParseErrorKeepsData ==
    [][(UploadParseFails \/ UploadStoreThrows) =>
          UNCHANGED <<lookupData, localStorage, remoteTable>>]_vars

C15_PullNeverThrows ==
    runLog # "thrown" /\ retryCount = 0


----------------------------------------------------------------------------
(* Claims about the push (Spec) *)

\* C21: syncLookupData is a replace-all write. Whenever a call of syncLookupData
\* with a list returns without having called setSyncError, the remote table
\* holds the rows of that list and no other row. The call returns so when the
\* delete has been answered and there is no row to insert, and when the insert of
\* the last batch is answered without error.
C21_ReplaceAll ==
    [][\A kind \in SyncKinds :
          (/\ \/ \E deleted \in BOOLEAN : DeleteResponds(kind, deleted)
              \/ InsertResponds(kind, TRUE)
           /\ task'[kind] = Idle)
          => remoteTable' = lookupRows(task[kind].data)]_vars


----------------------------------------------------------------------------
(* Claims about the adoption of a pull (SpecRefresh) *)

\* C22: an empty pull is not adopted. When the select of forceRefresh or of the
\* handler of the notifications is answered and fetchLookupDataSafely returns
\* an empty list while the record list holds records, the record list and
\* localStorage are left as they are.
C22_EmptyPullNotAdopted ==
    [][\A data \in selectOrders(remoteTable) :
          (/\ \/ SelectResponds(data) /\ task["refresh"].kind = "force"
              \/ NotifySelectResponds(data)
           /\ mappingsOf(data) = <<>>
           /\ Len(lookupData) > 0)
          => (lookupData' = lookupData /\ localStorage' = localStorage)]_vars


----------------------------------------------------------------------------
(* Claims about the remote round trip (SpecRoundTrip) *)

\* C27: the remote round trip. For every record list pushed, records with a
\* blank trailer and lists whose sequence numbers are not distinct included, the
\* list that fetchLookupDataSafely returns after a successful syncLookupData
\* holds the same (truck, trailer) pairs in the same order.
C27_RemoteRoundTrip ==
    pAnswer.fn = "roundTrip" =>
        /\ Len(pAnswer.result) = Len(pAnswer.pushed)
        /\ \A i \in 1..Len(pAnswer.pushed) :
               /\ pAnswer.result[i].truck = pAnswer.pushed[i].truck
               /\ pAnswer.result[i].trailer = pAnswer.pushed[i].trailer


----------------------------------------------------------------------------
(* Claims about lookupDataChanged (SpecCount) *)

\* C28: the dataCount of lookupDataChanged is the number of records of the
\* record list set by the upload, the accepted add, the clear or the adopted
\* refresh that the event announces.
C28_DataCountIsNewLength ==
    pAnswer.fn = "changed" => pAnswer.dataCount = Len(pAnswer.list)


----------------------------------------------------------------------------
(* Claims about the guard of the pull (SpecRefreshFair) *)

\* C30: the guard of fetchLookupDataSafely is always released. syncInProgress
\* is set only while a select is in flight, and whenever it is set it is reset
\* later: by the answer, by an error, before a retry, or by the abort.
C30_GuardReleased ==
    /\ [](syncInProgress => SelectsInFlight >= 1)
    /\ (syncInProgress ~> ~syncInProgress)

\* The select of the handler has been aborted after 15000 ms, the call has
\* returned null, and the guard is free.
C30_Witness ==
    /\ runLog = "null"
    /\ notifyTask = Idle
    /\ task["refresh"] = Idle
    /\ ~syncInProgress


----------------------------------------------------------------------------
(* Claims about the probe (Spec) *)

\* testSupabaseConnection has returned false in a session with credentials
ProbeGaveUp == supabaseConfigured /\ probe.pc = "ended" /\ ~isSupabaseAvailable

\* The requests to the remote table that have not been answered
RemoteRequests ==
    Cardinality({kind \in TaskKinds : task[kind].pc \in {"delete", "insert", "select"}})
        + (IF notifyTask.pc = "select" THEN 1 ELSE 0)

\* C24: the probe sequence, and disconnected as an absorbing state. A probe that
\* fails is retried while fewer than 3 retries have been made, retry k after
\* k x 2000 ms, with the status still connecting; the failure of the third retry
\* sets the status disconnected. From then on, until the page is reloaded, the
\* status stays disconnected, no probe is made, no request is sent to the remote
\* table and the table is not changed.
C24_ProbeSequence ==
    /\ [][ProbeFails =>
             IF probe.retryAttempt < 3
             THEN /\ probe'.pc = "running"
                  /\ probe'.retryAttempt = probe.retryAttempt + 1
                  /\ probe'.delay = probe'.retryAttempt * 2000
                  /\ connectionStatus' = "connecting"
             ELSE /\ probe'.pc = "ended"
                  /\ connectionStatus' = "disconnected"]_vars
    /\ [][(ProbeGaveUp /\ ~Reload) =>
             /\ ProbeGaveUp'
             /\ connectionStatus' = "disconnected"
             /\ RemoteRequests' = 0
             /\ UNCHANGED remoteTable]_vars

\* The probe has given up after its third retry, and an add made afterwards has
\* been accepted and stored without a request to the remote table.
C24_Witness ==
    /\ ProbeGaveUp
    /\ connectionStatus = "disconnected"
    /\ addOutcome = "accepted"
    /\ InFlight = 0
    /\ localStorage = JSONstringify(lookupData)
    /\ remoteTable = <<>>


----------------------------------------------------------------------------
(* Claims about the timeouts (SpecSilent) *)

\* C23: no remote operation is left pending. Although the remote store may
\* leave requests unanswered, the probe ends, and every uploadHtml,
\* addTruckTrailerPair, clearData, forceRefresh and startup load that has been
\* called returns (isLoading is set back to false when uploadHtml and
\* forceRefresh return).
C23_NothingLeftPending ==
    /\ (probe.pc = "running") ~> (probe.pc = "ended")
    /\ \A kind \in TaskKinds : (task[kind].pc # "idle") ~> (task[kind].pc = "idle")


----------------------------------------------------------------------------
(* Claims about localStorage and the record list (SpecEcho) *)

\* The record list the item of localStorage holds, empty when there is no item
StoredList == IF localStorage = NoItem THEN <<>> ELSE JSONparse(localStorage)

\* No call of the service is running, no run of the handler of the
\* notifications, and no timer of triggerLookupUpdate is set
Quiescent ==
    /\ isInitialized
    /\ probe.pc = "ended"
    /\ InFlight = 0
    /\ notifyTask = Idle
    /\ ~pendingUpdate

\* C25: localStorage equals memory at quiescence. Whenever no call of
\* uploadHtml, addTruckTrailerPair or clearData is running, no refresh is in
\* flight and no timer is set, the list stored in localStorage is the record
\* list (no item standing for the empty list).
C25_StoreEqualsMemory ==
    Quiescent => StoredList = lookupData


----------------------------------------------------------------------------
(* Claims about the convergence on the remote table (SpecConverge) *)

\* The record list is what a pull of the remote table gives
Converged == \E data \in selectOrders(remoteTable) : lookupData = mappingsOf(data)

\* C26: convergence after remote changes. In a session that stays connected and
\* whose pulls all succeed, once the events of all the changes made to the
\* table have been delivered, the record list comes to equal the content of the
\* table, whatever the times of the events are.
C26_Convergence ==
    (channel.sent > 0 /\ channel.delivered = channel.sent) ~> Converged


----------------------------------------------------------------------------
(* Claims about the ramps (SpecRamp) *)

\* The truck input or the trailer input of the ramp holds a text
Occupied(status) == ~IsBlank(status.truckValue) \/ ~IsBlank(status.trailerValue)

\* C29: the occupancy of a ramp is consistent with its inputs once the timers
\* have run. In every state with no timer left, a ramp whose truckValue or
\* trailerValue is not blank is active: no timer set before the ramp was
\* occupied again has made it inactive.
C29_OccupancyConsistent ==
    rampTimers = <<>> =>
        \A rampNumber \in Ramps :
            Occupied(rampStatus[rampNumber]) => rampStatus[rampNumber].active

====
